---- MODULE Spec2Model ----
(***************************************************************************)
(* Personal library manager (src/app.py): a Streamlit script that keeps a  *)
(* list of book records in st.session_state.library, mirrors it to         *)
(* library.json after every add/remove, and offers search, sort and        *)
(* statistics over it.                                                     *)
(*                                                                         *)
(* Text is modelled as a sequence of one-character strings, so that        *)
(* lower(), str(), substring search, string comparison and the JSON        *)
(* encoding of a value are computed, not assumed.                          *)
(***************************************************************************)
EXTENDS Integers, Sequences, FiniteSets

VARIABLES
    sessions,     \* the browser sessions running the script (each has its own st.session_state)
    has_library,  \* [session -> BOOLEAN]: "library" in st.session_state
    library,      \* [session -> sequence of book records]: st.session_state.library
    file_exists,  \* os.path.exists(LIBRARY_FILE)
    file,         \* contents of library.json: a JSON array of objects (see json_dump)
    history,      \* history variable, [session -> "none" | "empty" | "loaded" | "adds" | "mixed"]:
                  \* no session_state yet; started empty or from a file and not mutated; only
                  \* added to since an empty start; anything else
    last,         \* history variable: the last handler that ran, [op, session, removed], removed
                  \* being the number of records a remove dropped
    stats,        \* what get_statistics last returned
    query,        \* the Search Books widgets: [search_term, genre_filter, read_status_filter, sort_by]
    results,      \* what search_books last returned
    df            \* the DataFrame last shown by Search Books: rows [index, book]

vars == <<sessions, has_library, library, file_exists, file, history, last, stats, query, results, df>>

store_vars == <<sessions, has_library, library, file_exists, file, history>>

query_vars == <<query, results, df>>

----------------------------------------------------------------------------
\* Bounds of the model.

\* Most records the store of a session running alone holds.
MaxBooks == 4

\* Most records the stores of sessions running side by side hold together.
MaxSharedBooks == 2

\* Longest store the query engine is run on.
MaxRecords == 3

----------------------------------------------------------------------------
\* Text.

Digits == <<"0", "1", "2", "3", "4", "5", "6", "7", "8", "9">>

UpperCase == <<"A", "B", "C", "D", "E", "F", "G", "H", "I", "J", "K", "L", "M",
               "N", "O", "P", "Q", "R", "S", "T", "U", "V", "W", "X", "Y", "Z">>

LowerCase == <<"a", "b", "c", "d", "e", "f", "g", "h", "i", "j", "k", "l", "m",
               "n", "o", "p", "q", "r", "s", "t", "u", "v", "w", "x", "y", "z">>

\* The characters the model uses, in code-point order.
Ascii == <<" ", "\"", "-">> \o Digits \o UpperCase \o <<"\\">> \o LowerCase

Ord(c) == CHOOSE i \in 1..Len(Ascii) : Ascii[i] = c

\* str.lower() on one character, then on a string.
LowerChar(c) ==
    IF \E i \in 1..Len(UpperCase) : UpperCase[i] = c
    THEN LowerCase[CHOOSE i \in 1..Len(UpperCase) : UpperCase[i] = c]
    ELSE c

Lower(s) == [i \in 1..Len(s) |-> LowerChar(s[i])]

\* str(n) for an integer n >= 0: its decimal digits.
RECURSIVE IntToStr(_)
IntToStr(n) ==
    IF n < 10 THEN <<Digits[n + 1]>>
    ELSE IntToStr(n \div 10) \o <<Digits[(n % 10) + 1]>>

DigitValue(c) == (CHOOSE i \in 1..Len(Digits) : Digits[i] = c) - 1

\* int(text) for a string of decimal digits.
RECURSIVE StrToInt(_)
StrToInt(s) ==
    IF Len(s) = 0 THEN 0
    ELSE 10 * StrToInt(SubSeq(s, 1, Len(s) - 1)) + DigitValue(s[Len(s)])

\* Python's "t in s" on strings.
IsSubstring(t, s) ==
    \E i \in 0..(Len(s) - Len(t)) : SubSeq(s, i + 1, i + Len(t)) = t

\* Python's a < b on strings: by the first differing code point, a proper prefix first.
StrLess(a, b) ==
    \E i \in 1..(Len(b)) :
        /\ i <= Len(a) + 1
        /\ SubSeq(a, 1, i - 1) = SubSeq(b, 1, i - 1)
        /\ (i = Len(a) + 1 \/ Ord(a[i]) < Ord(b[i]))

----------------------------------------------------------------------------
\* JSON, as json.dump writes it and json.load reads it.  The array and the
\* objects keep their structure (a sequence of objects, each a sequence of
\* <<key, value text>> members in the dict's insertion order); every value is
\* the text json.dump writes for it.

Quote == "\""

Backslash == "\\"

\* A dump that writes a string's characters as they are.
JsonNoEscape(s) == s

RECURSIVE JsonEscape(_)
JsonEscape(s) ==
    IF Len(s) = 0 THEN <<>>
    ELSE (IF Head(s) \in {Quote, Backslash} THEN <<Backslash, Head(s)>> ELSE <<Head(s)>>)
         \o JsonEscape(Tail(s))

RECURSIVE JsonUnescape(_)
JsonUnescape(s) ==
    IF Len(s) = 0 THEN <<>>
    ELSE IF Head(s) = Backslash /\ Len(s) >= 2
         THEN <<s[2]>> \o JsonUnescape(SubSeq(s, 3, Len(s)))
         ELSE <<Head(s)>> \o JsonUnescape(Tail(s))

JsonString(s) == <<Quote>> \o JsonEscape(s) \o <<Quote>>

JsonInt(n) == IntToStr(n)

JsonBool(b) == IF b THEN <<"t", "r", "u", "e">> ELSE <<"f", "a", "l", "s", "e">>

\* One value read back: a string, a literal or a number, told by its first character.
JsonValue(text) ==
    IF Head(text) = Quote THEN JsonUnescape(SubSeq(text, 2, Len(text) - 1))
    ELSE IF text = JsonBool(TRUE) THEN TRUE
    ELSE IF text = JsonBool(FALSE) THEN FALSE
    ELSE StrToInt(text)

JsonObject(book) ==
    << <<"id", JsonInt(book.id)>>,
       <<"title", JsonString(book.title)>>,
       <<"author", JsonString(book.author)>>,
       <<"publication_year", JsonInt(book.publication_year)>>,
       <<"genre", JsonString(book.genre)>>,
       <<"read_status", JsonBool(book.read_status)>> >>

Member(obj, key) == obj[CHOOSE i \in 1..Len(obj) : obj[i][1] = key][2]

\* json.dump(st.session_state.library, f, indent=4)
json_dump(books) == [i \in 1..Len(books) |-> JsonObject(books[i])]

\* json.load(f)
json_load(text) ==
    [i \in 1..Len(text) |->
        [id               |-> JsonValue(Member(text[i], "id")),
         title            |-> JsonValue(Member(text[i], "title")),
         author           |-> JsonValue(Member(text[i], "author")),
         publication_year |-> JsonValue(Member(text[i], "publication_year")),
         genre            |-> JsonValue(Member(text[i], "genre")),
         read_status      |-> JsonValue(Member(text[i], "read_status"))]]

----------------------------------------------------------------------------
\* Records and the inputs of the forms.

Book(id, title, author, publication_year, genre, read_status) ==
    [id |-> id, title |-> title, author |-> author,
     publication_year |-> publication_year, genre |-> genre,
     read_status |-> read_status]

\* What the Add a Book form can submit: a title with characters JSON escapes, an
\* empty genre and the year 0 are all accepted (no validation, lines 79-86).
BookInputs ==
    { Book(0, <<"D", "u", "n", "e">>, <<"H", "e", "r", "b", "e", "r", "t">>, 1965,
           <<"S", "c", "i", "-", "F", "i">>, TRUE),
      Book(0, <<"S", "a", "y", " ", "\"", "H", "i", "\"">>, <<"O", "\\", "N">>, 0,
           <<>>, FALSE) }

Ids(books) == {books[i].id : i \in 1..Len(books)}

RECURSIVE SumLen(_, _)
SumLen(lib, ss) ==
    IF ss = {} THEN 0
    ELSE LET s == CHOOSE x \in ss : TRUE IN Len(lib[s]) + SumLen(lib, ss \ {s})

TotalBooks == SumLen(library, sessions)

\* The bound that applies: the stores of the model stop growing there.
BookBound == IF Cardinality(sessions) = 1 THEN MaxBooks ELSE MaxSharedBooks

NoStats == [total_books |-> 0, percentage_read |-> [num |-> 0, den |-> 1]]

NoQuery == [search_term |-> <<>>, genre_filter |-> <<"A", "l", "l">>,
            read_status_filter |-> <<"A", "l", "l">>, sort_by |-> "Title A-Z"]

Ran(op, s, removed) == [op |-> op, session |-> s, removed |-> removed]

\* The results of a handler are locals of one run of the script: the next run
\* starts without them.
NoOutputs == stats' = NoStats /\ query' = NoQuery /\ results' = <<>> /\ df' = <<>>

----------------------------------------------------------------------------
\* The store and its persistence.

\* Lines 9-15: the store a new session starts with.
load_library == IF file_exists THEN json_load(file) ELSE <<>>

\* The file opened with "a": the new text follows the old.
appended_text(old_text, books) == old_text \o json_dump(books)

\* The file opened with "x"-like care: an existing file is left as it is.
kept_text(old_text, books) == IF old_text = <<>> THEN json_dump(books) ELSE old_text

\* Lines 18-21: open(filename, "w") truncates, json.dump writes the whole list.
saved_text(old_text, books) == json_dump(books)

save_library_to_file(books) ==
    /\ file_exists' = TRUE
    /\ file' = saved_text(file, books)

\* The id taken as the count before the append.
new_book_id_count(books) == Len(books)

\* The id taken as one more than the largest id in the store.
new_book_id_max(books) ==
    IF Len(books) = 0 THEN 1
    ELSE (CHOOSE m \in Ids(books) : \A n \in Ids(books) : n <= m) + 1

\* Line 25.
new_book_id(books) == Len(books) + 1

\* Lines 25-33.
add_book(books, title, author, publication_year, genre, read_status) ==
    Append(books, Book(new_book_id(books), title, author, publication_year,
                       genre, read_status))

\* The id taken as a position: del library[book_id - 1].
remove_book_at(books, book_id) ==
    IF book_id <= Len(books)
    THEN SubSeq(books, 1, book_id - 1) \o SubSeq(books, book_id + 1, Len(books))
    ELSE books

\* Line 38.
remove_book(books, book_id) == SelectSeq(books, LAMBDA book : book.id # book_id)

\* Lines 62-66.  percentage_read is read_books / total_books * 100, kept as the
\* exact fraction num/den.
RECURSIVE read_count(_)
read_count(books) ==
    IF Len(books) = 0 THEN 0
    ELSE (IF Head(books).read_status THEN 1 ELSE 0) + read_count(Tail(books))

\* The division without its guard for an empty store.
get_statistics_unguarded(books) ==
    [total_books |-> Len(books),
     percentage_read |-> [num |-> read_count(books) * 100, den |-> Len(books)]]

get_statistics(books) ==
    LET total_books == Len(books)
        read_books == read_count(books)
    IN [total_books |-> total_books,
        percentage_read |-> IF total_books > 0
                            THEN [num |-> read_books * 100, den |-> total_books]
                            ELSE [num |-> 0, den |-> 1]]

----------------------------------------------------------------------------
\* The handlers.  Every user action reruns the script: lines 9-15 load the store
\* only when the session has none yet, then the selected menu branch runs.

\* A new session's first run of the script (lines 9-15).
Startup(s) ==
    /\ ~has_library[s]
    /\ library' = [library EXCEPT ![s] = load_library]
    /\ has_library' = [has_library EXCEPT ![s] = TRUE]
    /\ history' = [history EXCEPT ![s] = IF library'[s] = <<>> THEN "empty" ELSE "loaded"]
    /\ last' = Ran("startup", s, 0)
    /\ NoOutputs
    /\ UNCHANGED <<sessions, file_exists, file>>

\* The session ends (tab closed, server restarted): its session_state is gone,
\* the file stays.
EndSession(s) ==
    /\ has_library[s]
    /\ library' = [library EXCEPT ![s] = <<>>]
    /\ has_library' = [has_library EXCEPT ![s] = FALSE]
    /\ history' = [history EXCEPT ![s] = "none"]
    /\ last' = Ran("end", s, 0)
    /\ NoOutputs
    /\ UNCHANGED <<sessions, file_exists, file>>

\* Add a Book, submitted (lines 76-87 and 23-34).
AddBook(s, b) ==
    /\ has_library[s]
    /\ TotalBooks < BookBound
    /\ library' = [library EXCEPT ![s] =
                      add_book(library[s], b.title, b.author, b.publication_year,
                               b.genre, b.read_status)]
    /\ save_library_to_file(library'[s])
    /\ history' = [history EXCEPT ![s] =
                      IF history[s] \in {"empty", "adds"} THEN "adds" ELSE "mixed"]
    /\ last' = Ran("add", s, 0)
    /\ NoOutputs
    /\ UNCHANGED <<sessions, has_library>>

\* remove_book(book_id) (lines 36-39).  The Remove a Book page (lines 90-99)
\* passes the id of a listed record; the function takes any id.
RemoveBook(s, book_id) ==
    /\ has_library[s]
    /\ library' = [library EXCEPT ![s] = remove_book(library[s], book_id)]
    /\ save_library_to_file(library'[s])
    /\ history' = [history EXCEPT ![s] = "mixed"]
    /\ last' = Ran("remove", s, Len(library[s]) - Len(library'[s]))
    /\ NoOutputs
    /\ UNCHANGED <<sessions, has_library>>

\* Library Statistics (lines 137-142).
Statistics(s) ==
    /\ has_library[s]
    /\ stats' = get_statistics(library[s])
    /\ last' = Ran("stats", s, 0)
    /\ query' = NoQuery /\ results' = <<>> /\ df' = <<>>
    /\ UNCHANGED store_vars

----------------------------------------------------------------------------
\* One session at a time, from a machine with no library.json.

InitSessions(ss) ==
    /\ sessions = ss
    /\ has_library = [s \in ss |-> FALSE]
    /\ library = [s \in ss |-> <<>>]
    /\ file_exists = FALSE
    /\ file = <<>>
    /\ history = [s \in ss |-> "none"]
    /\ last = Ran("none", 0, 0)
    /\ stats = NoStats
    /\ query = NoQuery
    /\ results = <<>>
    /\ df = <<>>

Init == InitSessions({1})

StartupStep == \E s \in sessions : Startup(s)

EndSessionStep == \E s \in sessions : EndSession(s)

AddBookStep == \E s \in sessions : \E b \in BookInputs : AddBook(s, b)

RemoveBookStep == \E s \in sessions : \E book_id \in 1..BookBound : RemoveBook(s, book_id)

StatisticsStep == \E s \in sessions : Statistics(s)

Next ==
    \/ StartupStep
    \/ EndSessionStep
    \/ AddBookStep
    \/ RemoveBookStep
    \/ StatisticsStep

Spec == Init /\ [][Next]_vars

\* Two sessions of the app open at once, sharing library.json (no locking).
InitConcurrent == InitSessions({1, 2})

SpecConcurrent == InitConcurrent /\ [][Next]_vars

----------------------------------------------------------------------------
\* The query engine.

All == <<"A", "l", "l">>

Read == <<"R", "e", "a", "d">>

Unread == <<"U", "n", "r", "e", "a", "d">>

SortOptions == {"Title A-Z", "Publication Year asc", "Publication Year desc"}

\* Lines 47-51: the term, lowercased, in one of the four texts of the record.
term_matches(term, book) ==
    \/ IsSubstring(term, Lower(book.title))
    \/ IsSubstring(term, Lower(book.author))
    \/ IsSubstring(term, Lower(book.genre))
    \/ IsSubstring(term, IntToStr(book.publication_year))

\* The genre filter applied to the whole list instead of the list filtered so far.
genre_pass_restarting(books, filtered, genre_filter) ==
    IF genre_filter # All
    THEN SelectSeq(books, LAMBDA book : Lower(book.genre) = Lower(genre_filter))
    ELSE filtered

\* Lines 53-54: books is the list search_books was given, filtered the list so far.
genre_pass(books, filtered, genre_filter) ==
    IF genre_filter # All
    THEN SelectSeq(filtered, LAMBDA book : Lower(book.genre) = Lower(genre_filter))
    ELSE filtered

\* Lines 41-60.
search_books(books, search_term, genre_filter, read_status_filter) ==
    LET term == Lower(search_term)
        by_term ==
            IF search_term # <<>>
            THEN SelectSeq(books, LAMBDA book : term_matches(term, book))
            ELSE books
        by_genre == genre_pass(books, by_term, genre_filter)
        by_status ==
            IF read_status_filter # All
            THEN LET read_status_bool == (read_status_filter = Read)
                 IN SelectSeq(by_genre, LAMBDA book : book.read_status = read_status_bool)
            ELSE by_genre
    IN by_status

\* pd.DataFrame(results), line 117: one row per record, labelled 0, 1, ... in
\* the order of results; a sort moves the rows, labels included.
DataFrame(books) == [i \in 1..Len(books) |-> [index |-> i - 1, book |-> books[i]]]

RowOrders(n) ==
    {p \in [1..n -> 1..n] : \A i, j \in 1..n : p[i] = p[j] => i = j}

\* a may stand before b in a frame sorted by the column, ascending or not.
\* Titles compare as Python strings do (by code point).
InOrder(column, ascending, a, b) ==
    IF column = "title"
    THEN ~StrLess(b.title, a.title)
    ELSE IF ascending THEN a.publication_year <= b.publication_year
         ELSE a.publication_year >= b.publication_year

\* df.sort_values(column, ascending=...) with the default kind="quicksort",
\* which pandas documents as not stable: every arrangement of the rows that is
\* ordered by the column is a possible result.
sort_values(frame, column, ascending) ==
    { [i \in 1..Len(frame) |-> frame[p[i]]] : p \in
        {q \in RowOrders(Len(frame)) :
            \A i \in 1..(Len(frame) - 1) :
                InOrder(column, ascending, frame[q[i]].book, frame[q[i + 1]].book)} }

\* Both year options sorting upwards.
sorted_frames_ascending(frame, sort_by) ==
    IF sort_by = "Title A-Z" THEN sort_values(frame, "title", TRUE)
    ELSE sort_values(frame, "publication_year", TRUE)

\* Lines 118-123.
sorted_frames(frame, sort_by) ==
    IF sort_by = "Title A-Z" THEN sort_values(frame, "title", TRUE)
    ELSE IF sort_by = "Publication Year asc" THEN sort_values(frame, "publication_year", TRUE)
    ELSE IF sort_by = "Publication Year desc" THEN sort_values(frame, "publication_year", FALSE)
    ELSE {frame}

\* The genres the Filter by Genre box offers (lines 106-107).
GenreOptions(books) ==
    {All} \cup {books[i].genre : i \in {k \in 1..Len(books) : books[k].genre # <<>>}}

\* The terms typed into the search box.
SearchTerms == { <<>>, <<"D", "U">>, <<"1", "9">>, <<"s", "f">> }

\* A widget of the Search Books page is changed (lines 104-111): the script
\* reruns with the Search button not pressed, so nothing is searched or shown.
EditQuery(s, widget, value) ==
    /\ has_library[s]
    /\ query[widget] # value
    /\ query' = [query EXCEPT ![widget] = value]
    /\ results' = <<>>
    /\ df' = <<>>
    /\ last' = Ran("edit", s, 0)
    /\ stats' = NoStats
    /\ UNCHANGED store_vars

EditQueryStep ==
    \E s \in sessions :
        \/ \E v \in SearchTerms : EditQuery(s, "search_term", v)
        \/ \E v \in GenreOptions(library[s]) : EditQuery(s, "genre_filter", v)
        \/ \E v \in {All, Read, Unread} : EditQuery(s, "read_status_filter", v)
        \/ \E v \in SortOptions : EditQuery(s, "sort_by", v)

\* The Search button is pressed (lines 113-126): search, then sort what was
\* found, if anything.
SearchBooks(s) ==
    /\ has_library[s]
    /\ results' = search_books(library[s], query.search_term, query.genre_filter,
                               query.read_status_filter)
    /\ IF results' # <<>>
       THEN df' \in sorted_frames(DataFrame(results'), query.sort_by)
       ELSE df' = <<>>
    /\ last' = Ran("search", s, 0)
    /\ stats' = NoStats
    /\ UNCHANGED <<query, sessions, has_library, library, file_exists, file, history>>

SearchBooksStep == \E s \in sessions : SearchBooks(s)

\* What the Add a Book form submitted for the stores the query engine is run on.
QueryInputs ==
    << Book(0, <<"D", "u", "n", "e">>, <<"H", "e", "r", "b", "e", "r", "t">>, 2000,
            <<"S", "f">>, TRUE),
       Book(0, <<"d", "u", "n", "e">>, <<"N", "g">>, 1990, <<"s", "f">>, FALSE),
       Book(0, <<"E", "m", "m", "a">>, <<"A", "u", "s", "t", "e", "n">>, 2010,
            <<>>, FALSE) >>

\* The store after the inputs picked by picks were added, in that order, to an
\* empty store.
RECURSIVE StoreOf(_)
StoreOf(picks) ==
    IF Len(picks) = 0 THEN <<>>
    ELSE LET b == QueryInputs[picks[Len(picks)]]
         IN add_book(StoreOf(SubSeq(picks, 1, Len(picks) - 1)), b.title, b.author,
                     b.publication_year, b.genre, b.read_status)

\* A session whose store holds up to MaxRecords added records, saved.
InitQuery ==
    /\ sessions = {1}
    /\ has_library = [s \in {1} |-> TRUE]
    /\ \E n \in 0..MaxRecords :
           \E picks \in [1..n -> 1..Len(QueryInputs)] :
               library = [s \in {1} |-> StoreOf(picks)]
    /\ file_exists = (library[1] # <<>>)
    /\ file = json_dump(library[1])
    /\ history = [s \in {1} |-> IF library[1] = <<>> THEN "empty" ELSE "adds"]
    /\ last = Ran(IF library[1] = <<>> THEN "startup" ELSE "add", 1, 0)
    /\ stats = NoStats
    /\ query = NoQuery
    /\ results = <<>>
    /\ df = <<>>

NextQuery == EditQueryStep \/ SearchBooksStep

SpecQuery == InitQuery /\ [][NextQuery]_vars

----------------------------------------------------------------------------
\* Claims about the store and its persistence.

Mutated(s) == history[s] \in {"adds", "mixed"}

UniqueIds(books) == \A i, j \in 1..Len(books) : books[i].id = books[j].id => i = j

\* books without the first record whose id is book_id.
RemoveFirst(books, book_id) ==
    LET i == CHOOSE k \in 1..Len(books) :
                 /\ books[k].id = book_id
                 /\ \A j \in 1..(k - 1) : books[j].id # book_id
    IN SubSeq(books, 1, i - 1) \o SubSeq(books, i + 1, Len(books))

\* C1: remove(id) with an id present in the store shortens the store by exactly
\* one: only the first record with that id goes, every other record stays, in
\* order.
C1_RemovePresentRemovesOne ==
    [][\A s \in sessions : \A book_id \in 1..BookBound :
          (RemoveBook(s, book_id) /\ book_id \in Ids(library[s]))
              => /\ Len(library'[s]) = Len(library[s]) - 1
                 /\ library'[s] = RemoveFirst(library[s], book_id)]_vars

\* C2: from the empty store, adds alone give the k-th added record the id k, at
\* position k, the one record retrievable by that id; each add appends one
\* record with id = length before + 1 and leaves the earlier records as they
\* were.
IdsCountUp ==
    \A s \in sessions :
        history[s] = "adds" =>
            \A k \in 1..Len(library[s]) :
                /\ library[s][k].id = k
                /\ SelectSeq(library[s], LAMBDA book : book.id = k) = <<library[s][k]>>

C2_AddsFromEmpty ==
    /\ []IdsCountUp
    /\ [][\A s \in sessions : \A b \in BookInputs :
             AddBook(s, b) =>
                 LET n == Len(library[s]) IN
                 /\ Len(library'[s]) = n + 1
                 /\ SubSeq(library'[s], 1, n) = library[s]
                 /\ library'[s][n + 1] =
                        Book(n + 1, b.title, b.author, b.publication_year, b.genre,
                             b.read_status)]_vars

C2_ThreeAddsFromEmpty ==
    \E s \in sessions :
        history[s] = "adds" /\ Len(library[s]) = 3 /\ last = Ran("add", s, 0)

\* C3: once a session has completed an add or a remove (a remove that matched
\* nothing included), the file holds exactly the session's store: the same
\* records, the same fields, the same order, and nothing else.
C3_FileMirrorsStore ==
    \A s \in sessions :
        Mutated(s) =>
            /\ file_exists
            /\ file = json_dump(library[s])
            /\ json_load(file) = library[s]

C3_SavedAfterRemoveOfNothing ==
    \E s \in sessions :
        /\ last = Ran("remove", s, 0)
        /\ Len(library[s]) >= 2
        /\ ~UniqueIds(library[s])
        /\ json_load(file) = library[s]

\* C4: a session's store is what a restart would load: empty when there is no
\* file, else the sequence the file holds, so a restart gives back the store as
\* the last mutation left it; and within a session the store changes only
\* through add and remove (it is loaded once).
StoreIsWhatLoads ==
    \A s \in sessions :
        has_library[s] =>
            /\ ~file_exists => library[s] = <<>>
            /\ file_exists => library[s] = json_load(file)

C4_RestartReloadsStore ==
    /\ []StoreIsWhatLoads
    /\ [][\A s \in sessions :
             (has_library[s] /\ has_library'[s] /\ library'[s] # library[s])
                 => last'.op \in {"add", "remove"} /\ last'.session = s]_vars

C4_ReloadedAfterRestart ==
    \E s \in sessions :
        /\ last = Ran("startup", s, 0)
        /\ history[s] = "loaded"
        /\ Len(library[s]) >= 2
        /\ \E i \in 1..Len(library[s]) : library[s][i].title # Lower(library[s][i].title)
        /\ \E i \in 1..Len(library[s]) : Backslash \in {library[s][i].author[k] : k \in 1..Len(library[s][i].author)}

\* C5: remove(id) with an id no record carries leaves the store as it was and
\* still writes the whole (unchanged) store to the file.
C5_RemoveAbsentIsNoOp ==
    [][\A s \in sessions : \A book_id \in 1..BookBound :
          (RemoveBook(s, book_id) /\ book_id \notin Ids(library[s]))
              => /\ library'[s] = library[s]
                 /\ file_exists'
                 /\ file' = json_dump(library[s])]_vars

C5_RemovedNothing ==
    \E s \in sessions :
        /\ last = Ran("remove", s, 0)
        /\ library[s] # <<>>
        /\ file = json_dump(library[s])

\* C6: ids are not unique: an add into a store that already holds a record with
\* id = count + 1 leaves two records with that id (add, add, add, remove 2, add
\* gives the ids 1, 3, 3).
C6_AddCanDuplicateId ==
    [][\A s \in sessions : \A b \in BookInputs :
          (AddBook(s, b) /\ (Len(library[s]) + 1) \in Ids(library[s]))
              => ~UniqueIds(library'[s])]_vars

C6_DuplicateIds ==
    \E s \in sessions :
        /\ Len(library[s]) = 3
        /\ [i \in 1..3 |-> library[s][i].id] = <<1, 3, 3>>
        /\ last.op = "add"

\* C9: statistics returns the store length and the share of read records in
\* percent (0 on the empty store, read/total*100 otherwise, so within 0..100;
\* 25 for 1 read out of 4), and changes neither the store nor the file.
ReadBooks(books) == Cardinality({i \in 1..Len(books) : books[i].read_status})

StatsAreRight ==
    \A s \in sessions :
        last = Ran("stats", s, 0) =>
            LET n == Len(library[s])
                p == stats.percentage_read
            IN /\ stats.total_books = n
               /\ p.den > 0
               /\ n = 0 => p.num = 0
               /\ n > 0 => p.num * n = ReadBooks(library[s]) * 100 * p.den
               /\ 0 <= p.num /\ p.num <= 100 * p.den
               /\ (n = 4 /\ ReadBooks(library[s]) = 1) => p.num = 25 * p.den

C9_Statistics ==
    /\ []StatsAreRight
    /\ [][last'.op = "stats" => UNCHANGED <<library, file_exists, file>>]_vars

C9_OneReadOfFour ==
    \E s \in sessions :
        /\ last = Ran("stats", s, 0)
        /\ stats.total_books = 4
        /\ ReadBooks(library[s]) = 1
        /\ stats.percentage_read.num = 25 * stats.percentage_read.den

\* C10: with two sessions on one file, a save writes the saving session's whole
\* store and nothing of the other's, and no session's store is refreshed from
\* the file: the file is the store of whoever saved last, and a record the other
\* session added can be missing from it.
C10_LastSaverWins ==
    [][(AddBookStep \/ RemoveBookStep) =>
          /\ file_exists'
          /\ file' = json_dump(library'[last'.session])
          /\ \A t \in sessions \ {last'.session} : library'[t] = library[t]]_vars

C10_LostUpdate ==
    /\ Cardinality(sessions) = 2
    /\ \A s \in sessions : Mutated(s)
    /\ \E s \in sessions :
           /\ file = json_dump(library[s])
           /\ \E t \in sessions \ {s} :
                  \E i \in 1..Len(library[t]) :
                      \A j \in 1..Len(file) : json_load(file)[j] # library[t][i]

----------------------------------------------------------------------------
\* Claims about the query engine.

Texts(book) ==
    {Lower(book.title), Lower(book.author), Lower(book.genre),
     IntToStr(book.publication_year)}

\* The three criteria of a search, all at once.
Matches(book, q) ==
    /\ \/ q.search_term = <<>>
       \/ \E text \in Texts(book) : IsSubstring(Lower(q.search_term), text)
    /\ \/ q.genre_filter = All
       \/ Lower(book.genre) = Lower(q.genre_filter)
    /\ \/ q.read_status_filter = All
       \/ book.read_status = (q.read_status_filter = Read)

Searched(s) == last = Ran("search", s, 0)

\* C7: search returns exactly the records that meet the three criteria together,
\* in their order in the store; with an empty term and both filters "All" that
\* is the whole store; the store and the file are left as they were.
ResultsAreTheMatches ==
    \A s \in sessions :
        Searched(s) =>
            /\ results = SelectSeq(library[s], LAMBDA book : Matches(book, query))
            /\ (/\ query.search_term = <<>>
                /\ query.genre_filter = All
                /\ query.read_status_filter = All) => results = library[s]

C7_SearchIsConjunction ==
    /\ []ResultsAreTheMatches
    /\ [][last'.op = "search" => UNCHANGED <<library, file_exists, file>>]_vars

C7_AllThreeCriteria ==
    \E s \in sessions :
        /\ Searched(s)
        /\ query.search_term # <<>>
        /\ query.genre_filter # All
        /\ query.read_status_filter # All
        /\ Len(results) > 0
        /\ \E book \in {library[s][i] : i \in 1..Len(library[s])} :
               /\ Matches(book, [query EXCEPT !.read_status_filter = All])
               /\ ~Matches(book, query)
        /\ \E book \in {library[s][i] : i \in 1..Len(library[s])} :
               ~Matches(book, [query EXCEPT !.genre_filter = All, !.read_status_filter = All])

Years(rows) == [i \in 1..Len(rows) |-> rows[i].book.publication_year]

\* The frame shown holds every row of the search result once.
IsRearrangement(frame, books) ==
    /\ Len(frame) = Len(books)
    /\ {frame[i].index : i \in 1..Len(frame)} = 0..(Len(books) - 1)
    /\ \A i \in 1..Len(frame) : frame[i].book = books[frame[i].index + 1]

KeyBefore(sort_by, a, b) ==
    IF sort_by = "Title A-Z" THEN StrLess(a.title, b.title)
    ELSE IF sort_by = "Publication Year asc" THEN a.publication_year < b.publication_year
    ELSE a.publication_year > b.publication_year

IsOrdered(frame, sort_by) ==
    \A i, j \in 1..Len(frame) :
        i < j => ~KeyBefore(sort_by, frame[j].book, frame[i].book)

\* Rows with equal keys stand in the order they had in the search result.
IsStable(frame, sort_by) ==
    \A i, j \in 1..Len(frame) :
        (/\ i < j
         /\ ~KeyBefore(sort_by, frame[i].book, frame[j].book)
         /\ ~KeyBefore(sort_by, frame[j].book, frame[i].book))
            => frame[i].index < frame[j].index

SortExamples ==
    Years(DataFrame(results)) = <<2000, 1990, 2010>> =>
        /\ query.sort_by = "Publication Year asc" => Years(df) = <<1990, 2000, 2010>>
        /\ query.sort_by = "Publication Year desc" => Years(df) = <<2010, 2000, 1990>>

====
